---- MODULE Spec2Model ----
(***************************************************************************)
(* Model of tiptap-markdown's parse direction and of its inline delimiter  *)
(* utilities.                                                              *)
(*                                                                         *)
(*   src/src/util/markdown.js        canDelimiterBeUsed, shiftDelim,       *)
(*                                   trimStart, trimEnd, trimInline        *)
(*   src/unnamed/part_000            the earlier copy of the same helpers  *)
(*   src/src/parse/MarkdownParser.js MarkdownParser                        *)
(*                                                                         *)
(* Strings are sequences: of character codes for the delimiter utilities,  *)
(* of markup tokens for the parser.  JavaScript indices are 0-based, TLA+  *)
(* sequences 1-based; every operator below takes and returns JavaScript    *)
(* indices.                                                                *)
(***************************************************************************)
EXTENDS Integers, Sequences, FiniteSets, TLC

VARIABLES
    text,       \* the string argument of the utility call
    delim,      \* the delimiter token
    from,       \* from (trimInline), start (shiftDelim), pos (canDelimiterBeUsed)
    to,         \* to (trimInline)
    op,         \* the utility called, "none" before the call
    offset,     \* shiftDelim's offset
    isOpening,  \* canDelimiterBeUsed's isOpening
    out,        \* the string returned
    flag,       \* the boolean returned
    st,         \* trimInline's state after its two passes, with the shift counts
    destroyed,          \* MarkdownParser.destroyed
    blockSelectorCache, \* the module's blockSelectorCache entry for this editor's schema
    listening,          \* the parser's destroyHandler is registered on the editor
    offCalls,           \* how often editor.off('destroy', ...) was called
    cleanups,           \* how often destroy() reached cleanupMarkedParser()
    extensions,         \* editor.extensionManager.extensions, each by what its updateDOM does
    schema,             \* editor.schema, as the tags of its block nodes' parseDOM rules
    pc,                 \* "idle", or "returned" while a call's outcome is on record
    call                \* the last call of a MarkdownParser method and its outcome

utilVars == <<text, delim, from, to, op, offset, isOpening, out, flag, st>>

driverVars == <<destroyed, blockSelectorCache, listening, offCalls, cleanups,
                extensions, schema, pc, call>>

vars == <<utilVars, driverVars>>

(***************************************************************************)
(* Bounds                                                                  *)
(***************************************************************************)
MaxLen == 5

\* the longest markup of a tree handed to the normalizer, in tokens
MaxTokens == 5

\* the longest source text handed to parse, in tokens
MaxSource == 2

\* the longest markup the renderer returns, in tokens
MaxRendered == 2

\* the longest source text of an inline normalization, in characters
MaxInline == 3

\* the most extensions an editor registers
MaxExtensions == 2

(***************************************************************************)
(* Character codes: the blank, "*" (ASCII punctuation, the delimiter       *)
(* character) and "a".                                                     *)
(***************************************************************************)
SP == 32

Alphabet == {SP, 42, 97}

Delims == {<<42>>, <<42, 42>>}

RECURSIVE SeqsUpTo(_, _)
SeqsUpTo(S, n) ==
    IF n = 0 THEN {<<>>}
    ELSE LET shorter == SeqsUpTo(S, n - 1)
         IN  shorter \cup {Append(s, c) : s \in {t \in shorter : Len(t) = n - 1}, c \in S}

Texts == SeqsUpTo(Alphabet, MaxLen)

Min(a, b) == IF a < b THEN a ELSE b
Max(a, b) == IF a > b THEN a ELSE b

(***************************************************************************)
(* String.prototype.substring: both indices are clamped to [0, length] and *)
(* swapped when start > end.                                               *)
(***************************************************************************)
Clamp(s, i) == Max(0, Min(i, Len(s)))

substring(s, a, b) ==
    LET lo == Min(Clamp(s, a), Clamp(s, b))
        hi == Max(Clamp(s, a), Clamp(s, b))
    IN  SubSeq(s, lo + 1, hi)

substringFrom(s, a) == substring(s, a, Len(s))

(***************************************************************************)
(* String.prototype.charCodeAt: NaN outside the string.  NaN compares      *)
(* false with everything.                                                  *)
(***************************************************************************)
NaN == -1

charCodeAt(s, i) == IF i >= 0 /\ i < Len(s) THEN s[i + 1] ELSE NaN

\* src/src/util/markdown.js:75  "charCode <= 32"
isWhitespaceCode(c) == c # NaN /\ c <= 32

\* /\s/ on one character of the alphabet (src/unnamed/part_000:45)
isRegexWhitespace(c) == c \in {9, 10, 11, 12, 13, 32}

\* src/src/util/markdown.js:97-103
isPunctuation(c) ==
    \/ (c >= 33 /\ c <= 47)
    \/ (c >= 58 /\ c <= 64)
    \/ (c >= 91 /\ c <= 96)
    \/ (c >= 123 /\ c <= 126)

\* canDelimiterBeUsed without its two edge returns (lines 67-68): the flanking rule
\* applied to whatever charCodeAt yields outside the string
canDelimiterBeUsedNoEdges(s, pos, opening) ==
    IF Len(s) = 0 \/ pos < 0 \/ pos >= Len(s) THEN FALSE
    ELSE LET prevCharCode == charCodeAt(s, pos - 1)
             nextCharCode == charCodeAt(s, pos + 1)
         IN  IF opening
             THEN ~isWhitespaceCode(nextCharCode)
                      /\ (~isPunctuation(nextCharCode) \/ isWhitespaceCode(prevCharCode)
                              \/ isPunctuation(prevCharCode))
             ELSE ~isWhitespaceCode(prevCharCode)
                      /\ (~isPunctuation(prevCharCode) \/ isWhitespaceCode(nextCharCode)
                              \/ isPunctuation(nextCharCode))

\* src/src/util/markdown.js:61-90
canDelimiterBeUsed(s, pos, opening) ==
    IF Len(s) = 0 \/ pos < 0 \/ pos >= Len(s) THEN FALSE
    ELSE IF pos = 0 THEN opening
    ELSE IF pos = Len(s) - 1 THEN ~opening
    ELSE LET prevCharCode == charCodeAt(s, pos - 1)
             nextCharCode == charCodeAt(s, pos + 1)
             isPrevWhitespace == isWhitespaceCode(prevCharCode)
             isNextWhitespace == isWhitespaceCode(nextCharCode)
             isPrevPunctuation == isPunctuation(prevCharCode)
             isNextPunctuation == isPunctuation(nextCharCode)
         IN  IF opening
             THEN ~isNextWhitespace /\ (~isNextPunctuation \/ isPrevWhitespace \/ isPrevPunctuation)
             ELSE ~isPrevWhitespace /\ (~isPrevPunctuation \/ isNextWhitespace \/ isNextPunctuation)

\* src/src/util/markdown.js:113-120
shiftDelim(s, d, start, off) ==
    substring(s, 0, start)
        \o substring(s, start + Len(d), start + off)
        \o d
        \o substringFrom(s, start + off)

\* src/unnamed/part_000:74-78, the earlier copy
shiftDelimOrig(s, d, start, off) ==
    LET res == substring(s, 0, start) \o substringFrom(s, start + Len(d))
    IN  substring(res, 0, start + off) \o d \o substringFrom(res, start + off)

\* src/unnamed/part_000:30-72, the earlier copy: a virtual blank outside the string
canDelimiterBeUsedOrig(s, pos, opening) ==
    LET isAtStart == pos = 0
        isAtEnd == pos = Len(s) - 1
        prevChar == IF isAtStart THEN SP ELSE charCodeAt(s, pos - 1)
        nextChar == IF isAtEnd THEN SP ELSE charCodeAt(s, pos + 1)
        isLeftFlanking ==
            ~isRegexWhitespace(nextChar)
                /\ (~isPunctuation(nextChar) \/ isRegexWhitespace(prevChar) \/ isPunctuation(prevChar))
        isRightFlanking ==
            ~isRegexWhitespace(prevChar)
                /\ (~isPunctuation(prevChar) \/ isRegexWhitespace(nextChar) \/ isPunctuation(nextChar))
    IN  IF opening THEN isLeftFlanking ELSE isRightFlanking

\* src/src/util/markdown.js:133-140, the loop of trimStart
RECURSIVE trimStartLoop(_, _, _, _, _, _)
trimStartLoop(res, d, pos, t, iterations, maxIterations) ==
    IF pos < t /\ iterations < maxIterations /\ ~canDelimiterBeUsed(res, pos, TRUE)
    THEN trimStartLoop(shiftDelim(res, d, pos, 1), d, pos + 1, t, iterations + 1, maxIterations)
    ELSE [text |-> res, pos |-> pos, iterations |-> iterations]

\* src/src/util/markdown.js:125-143; iterations is the number of shiftDelim calls
trimStart(s, d, f, t) ==
    IF f >= t THEN [text |-> s, from |-> f, to |-> t, iterations |-> 0]
    ELSE LET r == trimStartLoop(s, d, f, t, 0, t - f)
         IN  [text |-> r.text, from |-> r.pos, to |-> t, iterations |-> r.iterations]

\* src/src/util/markdown.js:156-163, the loop of trimEnd
RECURSIVE trimEndLoop(_, _, _, _, _, _)
trimEndLoop(res, d, pos, f, iterations, maxIterations) ==
    IF pos > f /\ iterations < maxIterations /\ ~canDelimiterBeUsed(res, pos, FALSE)
    THEN trimEndLoop(shiftDelim(res, d, pos, -1), d, pos - 1, f, iterations + 1, maxIterations)
    ELSE [text |-> res, pos |-> pos, iterations |-> iterations]

\* trimEnd walking back to the start of the text instead of to from
trimEndToTextStart(s, d, f, t) ==
    IF f >= t THEN [text |-> s, from |-> f, to |-> t, iterations |-> 0]
    ELSE LET r == trimEndLoop(s, d, t, 0, 0, t)
         IN  [text |-> r.text, from |-> f, to |-> r.pos, iterations |-> r.iterations]

\* src/src/util/markdown.js:148-166
trimEnd(s, d, f, t) ==
    IF f >= t THEN [text |-> s, from |-> f, to |-> t, iterations |-> 0]
    ELSE LET r == trimEndLoop(s, d, t, f, 0, t - f)
         IN  [text |-> r.text, from |-> f, to |-> r.pos, iterations |-> r.iterations]

\* src/src/util/markdown.js:177, the bounds trimInline rejects
rejected(s, f, t) == Len(s) = 0 \/ f < 0 \/ t >= Len(s) \/ f >= t

\* src/src/util/markdown.js:182-186, the state after the start pass and the end pass
trimPasses(s, d, f, t) ==
    LET a == trimStart(s, d, f, t)
        b == trimEnd(a.text, d, a.from, a.to)
    IN  [text |-> b.text, from |-> b.from, to |-> b.to,
         startSteps |-> a.iterations, endSteps |-> b.iterations]

\* src/src/util/markdown.js:189, the collapse test
collapses(state, d) == state.to - state.from < Len(d) + 1

\* src/src/util/markdown.js:176-199
trimInline(s, d, f, t) ==
    IF rejected(s, f, t) THEN s
    ELSE LET state == trimPasses(s, d, f, t)
         IN  IF collapses(state, d)
             THEN substring(state.text, 0, state.from)
                      \o substringFrom(state.text, state.to + Len(d))
             ELSE state.text

(***************************************************************************)
(* Markup.  A markup string is a sequence of tokens: a start tag, an end   *)
(* tag, or one character of text.  img is a void element.                  *)
(***************************************************************************)
LF == "\n"

Chars == {"x", LF, " "}

PairTags == {"p", "pre", "b"}

startTag(t) ==
    CASE t = "p" -> "<p>" [] t = "pre" -> "<pre>" [] t = "b" -> "<b>" [] t = "img" -> "<img>"

endTag(t) ==
    CASE t = "p" -> "</p>" [] t = "pre" -> "</pre>" [] t = "b" -> "</b>"

isStartTag(tok) == tok \in {"<p>", "<pre>", "<b>", "<img>"}

isEndTag(tok) == tok \in {"</p>", "</pre>", "</b>"}

isVoid(t) == t = "img"

tagOf(tok) ==
    CASE tok \in {"<p>", "</p>"} -> "p"
      [] tok \in {"<pre>", "</pre>"} -> "pre"
      [] tok \in {"<b>", "</b>"} -> "b"
      [] tok = "<img>" -> "img"

\* the well-formed markup strings of at most n tokens over the characters cs
RECURSIVE Markups(_, _)
Markups(cs, n) ==
    IF n = 0 THEN {<<>>}
    ELSE LET shorter == Markups(cs, n - 1)
             single == {<<c>> \o m : c \in cs \cup {"<img>"}, m \in shorter}
             paired == IF n < 2 THEN {}
                       ELSE UNION {{<<startTag(t)>> \o a \o <<endTag(t)>> \o b :
                                        a \in {m \in Markups(cs, n - 2) : Len(m) = i},
                                        b \in Markups(cs, n - 2 - i)} :
                                   t \in PairTags, i \in 0 .. n - 2}
         IN  {<<>>} \cup single \cup paired

(***************************************************************************)
(* The markup tree: a function from node ids to nodes.  Node 0 is the body *)
(* element elementFromString returns; a text leaf has the tag "#text".     *)
(***************************************************************************)
Root == 0

None == -1

node(t, ks, cs) == [tag |-> t, kids |-> ks, txt |-> cs]

EmptyTree == (Root :> node("body", <<>>, <<>>))

isText(nodes, id) == nodes[id].tag = "#text"

maxId(nodes) == CHOOSE n \in DOMAIN nodes : \A m \in DOMAIN nodes : m <= n

position(ids, id) == CHOOSE k \in 1 .. Len(ids) : ids[k] = id

hasChild(nodes, p, id) == \E k \in 1 .. Len(nodes[p].kids) : nodes[p].kids[k] = id

\* Node.parentElement / Node.parentNode
parentOf(nodes, id) ==
    IF \E p \in DOMAIN nodes : hasChild(nodes, p, id)
    THEN CHOOSE p \in DOMAIN nodes : hasChild(nodes, p, id)
    ELSE None

\* Node.nextSibling
nextSibling(nodes, id) ==
    LET p == parentOf(nodes, id)
    IN  IF p = None THEN None
        ELSE LET k == position(nodes[p].kids, id)
             IN  IF k < Len(nodes[p].kids) THEN nodes[p].kids[k + 1] ELSE None

\* closest('pre') looking at the element alone, not at what it stands in
closestPreSelfOnly(nodes, id) == id # None /\ id # Root /\ nodes[id].tag = "pre"

\* Element.closest('pre')
RECURSIVE closestPre(_, _)
closestPre(nodes, id) ==
    IF id = None \/ id = Root THEN FALSE
    ELSE nodes[id].tag = "pre" \/ closestPre(nodes, parentOf(nodes, id))

\* querySelectorAll('*') below the nodes ids: the elements in document order
RECURSIVE elementsIn(_, _)
elementsIn(nodes, ids) ==
    IF ids = <<>> THEN <<>>
    ELSE LET h == Head(ids)
         IN  (IF isText(nodes, h) THEN <<>> ELSE <<h>> \o elementsIn(nodes, nodes[h].kids))
                 \o elementsIn(nodes, Tail(ids))

\* all nodes below ids, text leaves too, in document order
RECURSIVE nodesIn(_, _)
nodesIn(nodes, ids) ==
    IF ids = <<>> THEN <<>>
    ELSE <<Head(ids)>> \o nodesIn(nodes, nodes[Head(ids)].kids) \o nodesIn(nodes, Tail(ids))

\* Element.innerHTML (getter), as the serialization of the nodes ids
RECURSIVE serialize(_, _)
serialize(nodes, ids) ==
    IF ids = <<>> THEN <<>>
    ELSE LET h == Head(ids)
             one == IF isText(nodes, h) THEN nodes[h].txt
                    ELSE IF isVoid(nodes[h].tag) THEN <<startTag(nodes[h].tag)>>
                    ELSE <<startTag(nodes[h].tag)>> \o serialize(nodes, nodes[h].kids)
                             \o <<endTag(nodes[h].tag)>>
         IN  one \o serialize(nodes, Tail(ids))

innerHTML(nodes, id) == serialize(nodes, nodes[id].kids)

(***************************************************************************)
(* Parsing markup into the children of a node.  The token at index i makes *)
(* node base + i; stack holds the open elements, the innermost last.  An   *)
(* end tag closes the innermost open element of its tag and what is open   *)
(* inside it, and is dropped when there is none; characters that follow    *)
(* each other make one text leaf.                                          *)
(***************************************************************************)
RECURSIVE parseTokens(_, _, _, _, _, _)
parseTokens(nodes, stack, markup, i, base, lastText) ==
    IF i > Len(markup) THEN nodes
    ELSE LET tok == markup[i]
             top == stack[Len(stack)]
             id == base + i
         IN  IF isStartTag(tok)
             THEN LET added == [nodes EXCEPT ![top].kids = Append(@, id)]
                                   @@ (id :> node(tagOf(tok), <<>>, <<>>))
                  IN  parseTokens(added,
                                  IF isVoid(tagOf(tok)) THEN stack ELSE Append(stack, id),
                                  markup, i + 1, base, None)
             ELSE IF isEndTag(tok)
             THEN LET open == {k \in 2 .. Len(stack) : nodes[stack[k]].tag = tagOf(tok)}
                  IN  IF open = {} THEN parseTokens(nodes, stack, markup, i + 1, base, lastText)
                      ELSE LET k == CHOOSE k \in open : \A j \in open : j <= k
                           IN  parseTokens(nodes, SubSeq(stack, 1, k - 1), markup, i + 1,
                                           base, None)
             ELSE IF lastText # None
             THEN parseTokens([nodes EXCEPT ![lastText].txt = Append(@, tok)],
                              stack, markup, i + 1, base, lastText)
             ELSE parseTokens([nodes EXCEPT ![top].kids = Append(@, id)]
                                  @@ (id :> node("#text", <<>>, <<tok>>)),
                              stack, markup, i + 1, base, id)

\* Element.innerHTML (setter): the children of id are replaced by the parsed markup
setInnerHTML(nodes, id, markup) ==
    parseTokens([nodes EXCEPT ![id].kids = <<>>], <<id>>, markup, 1, maxId(nodes), None)

\* util/dom elementFromString: the body element holding the parsed markup
elementFromString(markup) == setInnerHTML(EmptyTree, Root, markup)

\* util/dom extractElement: el becomes the sibling that follows its container; what
\* stood before it stays in the container, what stood after it goes into a copy of
\* the container that follows el
extractElement(nodes, el) ==
    LET parent == parentOf(nodes, el)
        grand == parentOf(nodes, parent)
        k == position(nodes[parent].kids, el)
        j == position(nodes[grand].kids, parent)
        before == SubSeq(nodes[parent].kids, 1, k - 1)
        after == SubSeq(nodes[parent].kids, k + 1, Len(nodes[parent].kids))
        copy == maxId(nodes) + 1
        moved == [nodes EXCEPT
                     ![parent].kids = before,
                     ![grand].kids = SubSeq(@, 1, j)
                                         \o <<el>>
                                         \o (IF after = <<>> THEN <<>> ELSE <<copy>>)
                                         \o SubSeq(@, j + 1, Len(@))]
    IN  IF after = <<>> THEN moved
        ELSE moved @@ (copy :> node(nodes[parent].tag, after, <<>>))

\* util/dom unwrapElement: the children of el take its place in its parent
unwrapElement(nodes, el) ==
    LET parent == parentOf(nodes, el)
        k == position(nodes[parent].kids, el)
    IN  [nodes EXCEPT ![parent].kids = SubSeq(@, 1, k - 1) \o nodes[el].kids
                                           \o SubSeq(@, k + 1, Len(@))]


(***************************************************************************)
(* MarkdownParser (src/src/parse/MarkdownParser.js)                        *)
(***************************************************************************)
NoSelector == [has |-> FALSE, selector |-> {}]

\* lines 149-165: the selector of the schema's block tags, computed once per schema
blockSelector(cache, sch) == IF cache.has THEN cache.selector ELSE sch

\* lines 172-178, over the static list els
RECURSIVE extractBlocks(_, _)
extractBlocks(nodes, els) ==
    IF els = <<>> THEN nodes
    ELSE LET el == Head(els)
             parentElement == parentOf(nodes, el)
         IN  extractBlocks(IF parentElement # None /\ nodes[parentElement].tag = "p"
                           THEN extractElement(nodes, el)
                           ELSE nodes,
                           Tail(els))

\* querySelectorAll(selector) under node
matching(nodes, id, selector) ==
    LET matches(el) == nodes[el].tag \in selector
    IN  SelectSeq(elementsIn(nodes, nodes[id].kids), matches)

\* normalizeBlocks stopping after the first element of the list
normalizeBlocksFirstOnly(nodes, id, cache, sch) ==
    LET selector == blockSelector(cache, sch)
        els == matching(nodes, id, selector)
    IN  [nodes |-> IF selector = {} THEN nodes
                   ELSE extractBlocks(nodes, IF els = <<>> THEN els ELSE <<Head(els)>>),
         cache |-> [has |-> TRUE, selector |-> selector]]

\* lines 147-179
normalizeBlocks(nodes, id, cache, sch) ==
    LET selector == blockSelector(cache, sch)
    IN  [nodes |-> IF selector = {} THEN nodes
                   ELSE extractBlocks(nodes, matching(nodes, id, selector)),
         cache |-> [has |-> TRUE, selector |-> selector]]

\* String.prototype.replace(/^\n/, '')
stripLeadingLF(cs) == IF cs # <<>> /\ Head(cs) = LF THEN Tail(cs) ELSE cs

\* lines 128-134, over the static list els
RECURSIVE stripNewlines(_, _)
stripNewlines(nodes, els) ==
    IF els = <<>> THEN nodes
    ELSE LET el == Head(els)
             sibling == nextSibling(nodes, el)
         IN  stripNewlines(IF sibling # None /\ isText(nodes, sibling) /\ ~closestPre(nodes, el)
                           THEN [nodes EXCEPT ![sibling].txt = stripLeadingLF(@)]
                           ELSE nodes,
                           Tail(els))

isSpace(tok) == tok \in {" ", LF}

\* /^\s+/.exec(content), the empty string when there is no match
RECURSIVE leadingSpaces(_)
leadingSpaces(cs) ==
    IF cs # <<>> /\ isSpace(Head(cs)) THEN <<Head(cs)>> \o leadingSpaces(Tail(cs)) ELSE <<>>

\* /\s+$/.exec(content), the empty string when there is no match
RECURSIVE trailingSpaces(_)
trailingSpaces(cs) ==
    IF cs # <<>> /\ isSpace(cs[Len(cs)])
    THEN Append(trailingSpaces(SubSeq(cs, 1, Len(cs) - 1)), cs[Len(cs)])
    ELSE <<>>

\* /^\n\n/.test(content)
startsWithBlankLine(cs) == Len(cs) >= 2 /\ cs[1] = LF /\ cs[2] = LF

firstElement(nodes, ids) ==
    IF \E k \in 1 .. Len(ids) : ~isText(nodes, ids[k])
    THEN ids[CHOOSE k \in 1 .. Len(ids) :
                 ~isText(nodes, ids[k]) /\ \A j \in 1 .. k - 1 : isText(nodes, ids[j])]
    ELSE None

\* Element.firstElementChild
firstElementChild(nodes, id) == firstElement(nodes, nodes[id].kids)

\* Element.nextElementSibling
nextElementSibling(nodes, id) ==
    LET p == parentOf(nodes, id)
        k == position(nodes[p].kids, id)
    IN  firstElement(nodes, SubSeq(nodes[p].kids, k + 1, Len(nodes[p].kids)))

\* normalizeInline restoring the trailing whitespace whatever follows the paragraph
normalizeInlineAlwaysTrailing(nodes, id, content) ==
    LET firstParagraph == firstElementChild(nodes, id)
    IN  IF firstParagraph = None \/ nodes[firstParagraph].tag # "p" THEN nodes
        ELSE IF startsWithBlankLine(content)
        THEN setInnerHTML(nodes, firstParagraph,
                          innerHTML(nodes, firstParagraph) \o trailingSpaces(content))
        ELSE LET unwrapped == unwrapElement(nodes, firstParagraph)
             IN  setInnerHTML(unwrapped, id,
                              leadingSpaces(content) \o innerHTML(unwrapped, id)
                                  \o trailingSpaces(content))

\* lines 181-207
normalizeInline(nodes, id, content) ==
    LET firstParagraph == firstElementChild(nodes, id)
    IN  IF firstParagraph = None \/ nodes[firstParagraph].tag # "p" THEN nodes
        ELSE LET startSpaces == leadingSpaces(content)
                 endSpaces == IF nextElementSibling(nodes, firstParagraph) = None
                              THEN trailingSpaces(content)
                              ELSE <<>>
             IN  IF startsWithBlankLine(content)
                 THEN setInnerHTML(nodes, firstParagraph,
                                   innerHTML(nodes, firstParagraph) \o endSpaces)
                 ELSE LET unwrapped == unwrapElement(nodes, firstParagraph)
                      IN  setInnerHTML(unwrapped, id,
                                       startSpaces \o innerHTML(unwrapped, id) \o endSpaces)

event(name, i) == [ev |-> name, i |-> i]

Faults == {"none", "normalizeBlocks", "stripNewlines", "normalizeInline"}

\* lines 120-145.  fault names the step whose DOM call raises, caught at lines 141-144;
\* blocks and stripped are the tree as the first and the second step left it.
normalizeDOM(nodes, id, isDestroyed, cache, sch, inline, content, fault) ==
    LET untouched == [nodes |-> nodes, blocks |-> nodes, stripped |-> nodes,
                      cache |-> cache, log |-> <<>>]
        failed == event("Error normalizing DOM", 0)
    IN  IF isDestroyed THEN untouched
        ELSE IF fault = "normalizeBlocks"
        THEN [untouched EXCEPT !.log = <<event("normalizeBlocks", 0), failed>>]
        ELSE LET done == normalizeBlocks(nodes, id, cache, sch)
                 log1 == <<event("normalizeBlocks", 0), event("stripNewlines", 0)>>
                 stripped == stripNewlines(done.nodes, elementsIn(done.nodes, done.nodes[id].kids))
             IN  IF fault = "stripNewlines"
                 THEN [nodes |-> done.nodes, blocks |-> done.nodes, stripped |-> done.nodes,
                       cache |-> done.cache, log |-> Append(log1, failed)]
                 ELSE IF ~inline
                 THEN [nodes |-> stripped, blocks |-> done.nodes, stripped |-> stripped,
                       cache |-> done.cache, log |-> log1]
                 ELSE [nodes |-> IF fault = "normalizeInline" THEN stripped
                                 ELSE normalizeInline(stripped, id, content),
                       blocks |-> done.nodes, stripped |-> stripped,
                       cache |-> done.cache,
                       log |-> Append(log1, event("normalizeInline", 0))
                                   \o (IF fault = "normalizeInline" THEN <<failed>> ELSE <<>>)]

NoState == [text |-> <<>>, from |-> 0, to |-> 0, startSteps |-> 0, endSteps |-> 0,
            ran |-> FALSE, pair |-> FALSE]

(***************************************************************************)
(* The driver's state and the record of a call.                            *)
(***************************************************************************)
string(cs) == [type |-> "string", val |-> cs]

Undefined == [type |-> "undefined", val |-> <<>>]

NoOutcome == [kind |-> "none", html |-> <<>>]

NoCall ==
    [method |-> "none", content |-> Undefined, inline |-> FALSE, outcome |-> NoOutcome,
     fault |-> "none", rendered |-> <<>>, result |-> Undefined, raised |-> FALSE,
     log |-> <<>>, live |-> TRUE, selector |-> {},
     element |-> EmptyTree, blocks |-> EmptyTree, stripped |-> EmptyTree, after |-> EmptyTree]

\* the parser of an editor that was just created, no call made
DriverQuiet ==
    /\ destroyed = FALSE
    /\ blockSelectorCache = NoSelector
    /\ listening = TRUE
    /\ offCalls = 0
    /\ cleanups = 0
    /\ pc = "idle"
    /\ call = NoCall

UtilQuiet ==
    /\ text = <<>>
    /\ delim = <<42>>
    /\ from = 0
    /\ to = 0
    /\ op = "none"
    /\ offset = 0
    /\ isOpening = FALSE
    /\ out = <<>>
    /\ flag = FALSE
    /\ st = NoState

\* the delimiter token sits at index i of s
tokenAt(s, d, i) == i >= 0 /\ i + Len(d) <= Len(s) /\ substring(s, i, i + Len(d)) = d

\* a Span of the data model: both tokens present, the closing one after the opening one
holdsPair(s, d, f, t) == tokenAt(s, d, f) /\ tokenAt(s, d, t) /\ f + Len(d) <= t

(***************************************************************************)
(* The utility calls.  Init draws the arguments; each action is one call.  *)
(***************************************************************************)

UtilInit ==
    /\ text \in Texts
    /\ delim \in Delims
    /\ from \in -1 .. Len(text)
    /\ to \in 0 .. Len(text)
    /\ op = "none"
    /\ offset = 0
    /\ isOpening = FALSE
    /\ out = <<>>
    /\ flag = FALSE
    /\ st = NoState
    /\ DriverQuiet
    /\ extensions = <<>>
    /\ schema = {}

CallShiftDelim ==
    /\ op = "none"
    /\ \E o \in {-1, 1} :
        /\ offset' = o
        /\ out' = shiftDelim(text, delim, from, o)
    /\ op' = "shiftDelim"
    /\ UNCHANGED <<text, delim, from, to, isOpening, flag, st>>
    /\ UNCHANGED driverVars

CallCanDelimiterBeUsed ==
    /\ op = "none"
    /\ \E b \in BOOLEAN :
        /\ isOpening' = b
        /\ flag' = canDelimiterBeUsed(text, from, b)
    /\ op' = "canDelimiterBeUsed"
    /\ UNCHANGED <<text, delim, from, to, offset, out, st>>
    /\ UNCHANGED driverVars

trimState(s, d, f, t) ==
    IF rejected(s, f, t)
    THEN [NoState EXCEPT !.text = s, !.from = f, !.to = t, !.pair = holdsPair(s, d, f, t)]
    ELSE LET state == trimPasses(s, d, f, t)
         IN  [text |-> state.text, from |-> state.from, to |-> state.to,
              startSteps |-> state.startSteps, endSteps |-> state.endSteps,
              ran |-> TRUE, pair |-> holdsPair(s, d, f, t)]

CallTrimInline ==
    /\ op = "none"
    /\ out' = trimInline(text, delim, from, to)
    /\ st' = trimState(text, delim, from, to)
    /\ op' = "trimInline"
    /\ UNCHANGED <<text, delim, from, to, offset, isOpening, flag>>
    /\ UNCHANGED driverVars

\* the positions at which the token occurs in s
occurrences(s, d) == {i \in 0 .. Len(s) : tokenAt(s, d, i)}

\* a second call on the text the first call returned, at the positions of two tokens of it
CallTrimInlineAgain ==
    /\ op = "trimInline"
    /\ st.ran /\ st.pair /\ ~collapses(st, delim)
    /\ \E f2, t2 \in occurrences(out, delim) :
        /\ f2 + Len(delim) <= t2
        /\ text' = out
        /\ from' = f2
        /\ to' = t2
        /\ out' = trimInline(out, delim, f2, t2)
        /\ st' = trimState(out, delim, f2, t2)
    /\ op' = "trimInlineAgain"
    /\ UNCHANGED <<delim, offset, isOpening, flag>>
    /\ UNCHANGED driverVars

UtilNext ==
    \/ CallShiftDelim
    \/ CallCanDelimiterBeUsed
    \/ CallTrimInline
    \/ CallTrimInlineAgain

UtilSpec == UtilInit /\ [][UtilNext]_vars

(***************************************************************************)
(* MarkdownParser: destroy, the patched renderer, the hooks, parse.        *)
(***************************************************************************)
driverState == [destroyed |-> destroyed, listening |-> listening,
                offCalls |-> offCalls, cleanups |-> cleanups]

\* destroy without the test of line 60: every call releases and cleans up again
destroyAgain(d) ==
    [destroyed |-> TRUE,
     listening |-> FALSE,
     offCalls |-> IF d.listening THEN d.offCalls + 1 ELSE d.offCalls,
     cleanups |-> d.cleanups + 1]

\* lines 59-76
destroy(d) ==
    IF d.destroyed THEN d
    ELSE [destroyed |-> TRUE,
          listening |-> FALSE,
          offCalls |-> IF d.listening THEN d.offCalls + 1 ELSE d.offCalls,
          cleanups |-> d.cleanups + 1]

\* String.prototype.endsWith('\n')
endsWithLF(cs) == cs # <<>> /\ cs[Len(cs)] = LF

\* withPatchedRenderer stripping the trailing line feed of a lone line feed too
withPatchedRendererNoSoftBreak(outcome, source) ==
    IF outcome.kind # "returns" THEN source
    ELSE IF endsWithLF(outcome.html) THEN SubSeq(outcome.html, 1, Len(outcome.html) - 1)
    ELSE outcome.html

\* lines 212-234.  outcome is what the renderer does: it returns html, throws, or
\* returns something that is no string (endsWith then throws inside the try).
withPatchedRenderer(outcome, source) ==
    IF outcome.kind # "returns" THEN source
    ELSE IF outcome.html = <<LF>> THEN outcome.html
    ELSE IF endsWithLF(outcome.html) THEN SubSeq(outcome.html, 1, Len(outcome.html) - 1)
    ELSE outcome.html

\* what an extension's parse.updateDOM does: "none" when the extension has no such
\* hook; "append" adds an element to the tree; "throw" raises; "destroy" destroys the
\* parser it runs in
HookKinds == {"none", "append", "throw", "destroy"}

appendElement(nodes) ==
    LET id == maxId(nodes) + 1
    IN  [nodes EXCEPT ![Root].kids = Append(@, id)] @@ (id :> node("b", <<>>, <<>>))

\* lines 92-102, from extension i on
RECURSIVE updateDOM(_, _, _, _, _)
updateDOM(exts, i, nodes, d, log) ==
    IF i > Len(exts) THEN [threw |-> FALSE, nodes |-> nodes, d |-> d, log |-> log]
    ELSE IF exts[i] = "none" THEN updateDOM(exts, i + 1, nodes, d, log)
    ELSE LET called == Append(log, event("updateDOM", i))
         IN  IF exts[i] = "throw"
             THEN [threw |-> TRUE, nodes |-> nodes, d |-> d, log |-> called]
             ELSE updateDOM(exts, i + 1,
                            IF exts[i] = "append" THEN appendElement(nodes) ELSE nodes,
                            IF exts[i] = "destroy" THEN destroy(d) ELSE d,
                            called)

\* lines 84-86 and 214-232: the entry point called, and the failure it logs
rendering(inline, outcome) ==
    <<event(IF inline THEN "parseMarkdownInline" ELSE "parseMarkdown", 0)>>
        \o (IF outcome.kind = "returns" THEN <<>> ELSE <<event("Error in renderer", 0)>>)

\* a const declaration: the value is computed once, then used by the rest
const(value, rest(_)) == CHOOSE r \in {rest(v) : v \in {value}} : TRUE

\* lines 104-110, when no hook threw
normalized(hooks, rendered, cache, sch, content, inline, fault) ==
    const(normalizeDOM(hooks.nodes, Root, hooks.d.destroyed, cache, sch, inline,
                       content.val, fault),
          LAMBDA n :
              [result |-> string(innerHTML(n.nodes, Root)), raised |-> FALSE,
               log |-> hooks.log \o n.log, d |-> hooks.d, cache |-> n.cache,
               rendered |-> rendered, element |-> hooks.nodes, blocks |-> n.blocks,
               stripped |-> n.stripped, after |-> n.nodes])

\* lines 92-102 and their catch at lines 111-114
hooked(element, rendered, d, cache, exts, sch, content, inline, fault, log) ==
    const(updateDOM(exts, 1, element, d, Append(log, event("elementFromString", 0))),
          LAMBDA hooks :
              IF hooks.threw
              THEN [result |-> content, raised |-> FALSE,
                    log |-> Append(hooks.log, event("Error parsing markdown", 0)),
                    d |-> hooks.d,
                    cache |-> cache, rendered |-> rendered, element |-> element,
                    blocks |-> element, stripped |-> element, after |-> element]
              ELSE normalized(hooks, rendered, cache, sch, content, inline, fault))

\* lines 79, 117: the content handed back as it came, nothing called
passedThrough(d, cache, content) ==
    [result |-> content, raised |-> FALSE, log |-> <<>>, d |-> d, cache |-> cache,
     rendered |-> <<>>, element |-> EmptyTree, blocks |-> EmptyTree,
     stripped |-> EmptyTree, after |-> EmptyTree]

\* lines 82-114: the conversion of a string
parseString(d, cache, exts, sch, content, inline, outcome, fault) ==
    const(withPatchedRenderer(outcome, content.val),
          LAMBDA rendered :
              const(elementFromString(rendered),
                    LAMBDA element :
                        hooked(element, rendered, d, cache, exts, sch, content,
                               inline, fault, rendering(inline, outcome))))

\* parse without the test of line 81: whatever the content is, it is converted
parseAnyContent(d, cache, exts, sch, content, inline, outcome, fault) ==
    IF d.destroyed THEN passedThrough(d, cache, content)
    ELSE parseString(d, cache, exts, sch, content, inline, outcome, fault)

\* lines 78-118.  element is the tree as the hooks left it.
parse(d, cache, exts, sch, content, inline, outcome, fault) ==
    IF d.destroyed THEN passedThrough(d, cache, content)
    ELSE IF content.type = "string"
    THEN parseString(d, cache, exts, sch, content, inline, outcome, fault)
    ELSE passedThrough(d, cache, content)

(***************************************************************************)
(* The calls of the driver.                                                *)
(***************************************************************************)
BlockTags == {"p", "img", "pre"}

Schemas == {BlockTags, {}}

TreeChars == {"x", LF}

Trees == {elementFromString(m) : m \in Markups(TreeChars, MaxTokens)}

InlineSources == SeqsUpTo(TreeChars, MaxInline)

Sources == {string(m) : m \in Markups(Chars, MaxSource)}

NonStrings == {Undefined, [type |-> "object", val |-> <<>>]}

Outcomes ==
    {[kind |-> "throws", html |-> <<>>], [kind |-> "nonstring", html |-> <<>>]}
        \cup {[kind |-> "returns", html |-> m] : m \in Markups(TreeChars, MaxRendered)}

ExtensionLists == SeqsUpTo(HookKinds, MaxExtensions)

Init ==
    /\ UtilQuiet
    /\ DriverQuiet
    /\ extensions \in ExtensionLists
    /\ schema = BlockTags

setDriver(d) ==
    /\ destroyed' = d.destroyed
    /\ listening' = d.listening
    /\ offCalls' = d.offCalls
    /\ cleanups' = d.cleanups

\* parser.parse(content, { inline })
Parse ==
    /\ pc = "idle"
    /\ \E content \in Sources \cup NonStrings, inline \in BOOLEAN,
          outcome \in Outcomes, fault \in Faults :
        \E r \in {parse(driverState, blockSelectorCache, extensions, schema,
                        content, inline, outcome, fault)} :
            /\ call' = [NoCall EXCEPT
                           !.method = "parse", !.content = content, !.inline = inline,
                           !.outcome = outcome, !.fault = fault, !.rendered = r.rendered,
                           !.result = r.result, !.raised = r.raised, !.log = r.log,
                           !.live = ~destroyed,
                           !.selector = blockSelector(blockSelectorCache, schema),
                           !.element = r.element, !.blocks = r.blocks,
                           !.stripped = r.stripped, !.after = r.after]
            /\ setDriver(r.d)
            /\ blockSelectorCache' = r.cache
    /\ pc' = "returned"
    /\ UNCHANGED <<extensions, schema>>
    /\ UNCHANGED utilVars

\* the caller takes the outcome; the parser is idle again
Return ==
    /\ pc = "returned"
    /\ pc' = "idle"
    /\ call' = NoCall
    /\ UNCHANGED <<destroyed, blockSelectorCache, listening, offCalls, cleanups,
                   extensions, schema>>
    /\ UNCHANGED utilVars

\* parser.destroy(), as Markdown.onDestroy calls it (Markdown.js line 62).  The call
\* of cleanupMarkedParser that onDestroy makes itself (line 71) is the extension's and
\* is not counted in cleanups.
Destroy ==
    /\ pc = "idle"
    /\ setDriver(destroy(driverState))
    /\ UNCHANGED <<blockSelectorCache, extensions, schema, pc, call>>
    /\ UNCHANGED utilVars

\* the editor emits 'destroy': the handler registered at line 53 runs
EditorDestroy ==
    /\ pc = "idle"
    /\ listening
    /\ setDriver(destroy(driverState))
    /\ UNCHANGED <<blockSelectorCache, extensions, schema, pc, call>>
    /\ UNCHANGED utilVars

Next ==
    \/ Parse
    \/ Return
    \/ Destroy
    \/ EditorDestroy

Spec == Init /\ [][Next]_vars

\* parser.normalizeBlocks(element)
CallNormalizeBlocks ==
    /\ pc = "idle"
    /\ ~destroyed
    /\ \E element \in Trees :
        LET r == normalizeBlocks(element, Root, blockSelectorCache, schema)
        IN  /\ call' = [NoCall EXCEPT
                           !.method = "normalizeBlocks",
                           !.selector = blockSelector(blockSelectorCache, schema),
                           !.element = element, !.blocks = r.nodes,
                           !.stripped = r.nodes, !.after = r.nodes]
            /\ blockSelectorCache' = r.cache
    /\ pc' = "returned"
    /\ UNCHANGED <<destroyed, listening, offCalls, cleanups, extensions, schema>>
    /\ UNCHANGED utilVars

\* parser.normalizeDOM(element, { inline, content })
CallNormalizeDOM ==
    /\ pc = "idle"
    /\ \E element \in Trees, inline \in BOOLEAN, source \in InlineSources :
        /\ (~inline => source = <<>>)
        /\ LET r == normalizeDOM(element, Root, destroyed, blockSelectorCache, schema,
                                 inline, source, "none")
           IN  /\ call' = [NoCall EXCEPT
                              !.method = "normalizeDOM", !.content = string(source),
                              !.inline = inline, !.log = r.log, !.live = ~destroyed,
                              !.selector = blockSelector(blockSelectorCache, schema),
                              !.element = element, !.blocks = r.blocks,
                              !.stripped = r.stripped, !.after = r.nodes]
               /\ blockSelectorCache' = r.cache
    /\ pc' = "returned"
    /\ UNCHANGED <<destroyed, listening, offCalls, cleanups, extensions, schema>>
    /\ UNCHANGED utilVars

TreeInit ==
    /\ UtilQuiet
    /\ DriverQuiet
    /\ extensions = <<>>
    /\ schema \in Schemas

TreeNext ==
    \/ CallNormalizeBlocks
    \/ CallNormalizeDOM
    \/ Return
    \/ Destroy

TreeSpec == TreeInit /\ [][TreeNext]_vars

(***************************************************************************)
(* Reference operations the claims are stated with.                        *)
(***************************************************************************)
deleteAt(s, i, n) == SubSeq(s, 1, i) \o SubSeq(s, i + n + 1, Len(s))

insertAt(s, i, d) == SubSeq(s, 1, i) \o d \o SubSeq(s, i + 1, Len(s))

\* the text without the two tokens of the pair at f and t
withoutPair(s, d, f, t) == deleteAt(deleteAt(s, t, Len(d)), f, Len(d))

(***************************************************************************)
(* C1.  shiftDelim(text, delim, start, offset), for a token that sits at   *)
(* start and a target start + offset inside the shortened string, is the   *)
(* text with the token deleted at start and inserted again at              *)
(* start + offset; it is as long as the text.                              *)
(***************************************************************************)
C1_ShiftIsDeleteThenInsert ==
    (/\ op = "shiftDelim"
     /\ tokenAt(text, delim, from)
     /\ 0 <= from + offset
     /\ from + offset <= Len(text) - Len(delim))
        => /\ out = insertAt(deleteAt(text, from, Len(delim)), from + offset, delim)
           /\ Len(out) = Len(text)

(***************************************************************************)
(* C2.  As claimed, for every text of length >= 1: position 0 is a legal   *)
(* opening and never a legal closing boundary, the last index a legal      *)
(* closing and never a legal opening boundary.                             *)
(***************************************************************************)
edgeLaw ==
    /\ (from = 0 => flag = isOpening)
    /\ (from = Len(text) - 1 => flag = ~isOpening)

C2_EdgeLawAnyLength ==
    (op = "canDelimiterBeUsed" /\ Len(text) >= 1) => edgeLaw

(***************************************************************************)
(* C2, amended.  The same for every text of length >= 2, where position 0  *)
(* and the last index are two positions.                                   *)
(***************************************************************************)
C2_EdgeLaw ==
    (op = "canDelimiterBeUsed" /\ Len(text) >= 2) => edgeLaw

\* a closing boundary at the last index, after a blank, is reported legal
C2_Witness ==
    /\ op = "canDelimiterBeUsed"
    /\ Len(text) >= 3
    /\ from = Len(text) - 1
    /\ charCodeAt(text, from - 1) = SP
    /\ ~isOpening
    /\ flag

(***************************************************************************)
(* C3.  trimInline returns, and when its passes run the start pass and the *)
(* end pass each make at most to - from shifts, both together at most      *)
(* to - from, which is fewer than length(text); on rejected bounds no      *)
(* shift is made.                                                          *)
(***************************************************************************)
C3_ShiftStepsBounded ==
    op = "trimInline" =>
        IF st.ran
        THEN /\ st.startSteps <= to - from
             /\ st.endSteps <= to - from
             /\ st.startSteps + st.endSteps <= to - from
             /\ st.startSteps + st.endSteps < Len(text)
        ELSE st.startSteps + st.endSteps = 0

\* both passes shift, and between them exhaust the span
C3_Witness ==
    /\ op = "trimInline"
    /\ st.ran
    /\ st.startSteps >= 1
    /\ st.endSteps >= 1
    /\ st.startSteps + st.endSteps = to - from

(***************************************************************************)
(* C4.  Collapse law: when the text holds the pair at from and to and the  *)
(* width left after the two passes is below length(delim) + 1, the text    *)
(* returned is the input without the two tokens of the pair (nothing is    *)
(* wrapped any more), every other character kept in order.                 *)
(***************************************************************************)
C4_CollapseRemovesPair ==
    (op = "trimInline" /\ st.ran /\ st.pair /\ collapses(st, delim))
        => out = withoutPair(text, delim, from, to)

(***************************************************************************)
(* C5.  Idempotence: a second trimInline on the returned text, at the      *)
(* positions of its two tokens (stated for returned texts that hold        *)
(* exactly the two tokens, so that the positions are not in doubt), makes  *)
(* no shift and returns the same text.                                     *)
(***************************************************************************)
C5_SecondCallIsNoOp ==
    (op = "trimInlineAgain" /\ occurrences(text, delim) = {from, to})
        => /\ st.startSteps + st.endSteps = 0
           /\ out = text

(***************************************************************************)
(* Claims about MarkdownParser.parse.                                      *)
(***************************************************************************)
parseReturned == pc = "returned" /\ call.method = "parse"

logged(message) == \E i \in 1 .. Len(call.log) : call.log[i].ev = message

\* C6: whenever the renderer throws while parse converts a string on a live parser,
\* parse returns exactly the source string and raises nothing.
C6_RendererFailureReturnsSource ==
    (parseReturned /\ call.live /\ call.content.type = "string"
        /\ call.outcome.kind = "throws")
        => (call.result = call.content /\ ~call.raised)

\* C7: whenever an updateDOM hook raises, or a step of normalizeDOM raises, during
\* parse, parse returns the unmodified source text and raises nothing.
C7_HookOrNormalizerFailureReturnsSource ==
    (parseReturned /\ (logged("Error parsing markdown") \/ logged("Error normalizing DOM")))
        => (call.result = call.content /\ ~call.raised)

\* C8: a parse of a content value that is no string returns that very value, calls
\* neither the renderer nor a hook nor the normalizer, raises nothing, and changes no
\* state of the parser (destroyed flag, listener, block-tag cache, cleanup count).
C8_NonStringPassesThrough ==
    [][(call'.method = "parse" /\ call'.content.type # "string")
        => /\ call'.result = call'.content
           /\ call'.log = <<>>
           /\ ~call'.raised
           /\ UNCHANGED <<destroyed, blockSelectorCache, listening, offCalls, cleanups>>]_vars

C8_Witness ==
    /\ parseReturned
    /\ call.content.type = "object"
    /\ call.live
    /\ call.outcome.kind = "returns"
    /\ call.result = call.content
    /\ \E i \in 1 .. Len(extensions) : extensions[i] = "append"

(***************************************************************************)
(* Claims about the normalizer, stated on the trees of a call: element is  *)
(* the tree handed in, blocks the tree after block extraction, stripped    *)
(* the tree after newline stripping, after the tree the call leaves.       *)
(***************************************************************************)
\* id stands directly under p in the tree T
childOf(T, p, id) == \E k \in 1 .. Len(T[p].kids) : T[p].kids[k] = id

\* id stands somewhere under a in the tree T
RECURSIVE below(_, _, _)
below(T, a, id) == \E k \in 1 .. Len(T[a].kids) : T[a].kids[k] = id \/ below(T, T[a].kids[k], id)

\* the block elements of T that stand directly in a paragraph, each with its paragraph
blocksInParagraphs(T, tags) ==
    {<<c, e>> \in (DOMAIN T) \X (DOMAIN T) : T[c].tag = "p" /\ T[e].tag \in tags /\ childOf(T, c, e)}

\* the nodes of T in document order, those of keep only
documentOrder(T, keep) == SelectSeq(nodesIn(T, T[Root].kids), LAMBDA id : id \in keep)

\* C9: after normalizeBlocks, every block-tag element that stood directly in a
\* paragraph is a sibling of that paragraph and no longer below it, and the elements
\* and text leaves of the tree keep their document order, also with several block
\* elements in one paragraph.
C9_BlocksBecomeSiblingsInOrder ==
    (pc = "returned" /\ call.method = "normalizeBlocks")
        => /\ \A ce \in blocksInParagraphs(call.element, call.selector) :
                /\ ce[1] \in DOMAIN call.after /\ ce[2] \in DOMAIN call.after
                /\ ~below(call.after, ce[1], ce[2])
                /\ \E parent \in DOMAIN call.after :
                       childOf(call.after, parent, ce[1]) /\ childOf(call.after, parent, ce[2])
           /\ DOMAIN call.element \subseteq DOMAIN call.after
           /\ documentOrder(call.after, DOMAIN call.element)
                  = documentOrder(call.element, DOMAIN call.element)
           /\ \A id \in DOMAIN call.element :
                  /\ call.after[id].tag = call.element[id].tag
                  /\ call.after[id].txt = call.element[id].txt

C9_Witness ==
    /\ pc = "returned"
    /\ call.method = "normalizeBlocks"
    /\ \E c \in DOMAIN call.element :
           Cardinality({ce \in blocksInParagraphs(call.element, call.selector) : ce[1] = c}) >= 2
    /\ call.after # call.element

\* id is a pre element of T or stands below one
verbatim(T, id) == \E v \in DOMAIN T : T[v].tag = "pre" /\ (v = id \/ below(T, v, id))

\* the text leaf id of T stands right after an element that is neither pre nor in one
followsPlainElement(T, id) ==
    \E p \in DOMAIN T : \E k \in 1 .. Len(T[p].kids) - 1 :
        /\ T[p].kids[k + 1] = id
        /\ T[T[p].kids[k]].tag # "#text"
        /\ ~verbatim(T, T[p].kids[k])

textLeaves(T) == {id \in DOMAIN T : T[id].tag = "#text"}

beginsWithLF(cs) == cs # <<>> /\ cs[1] = LF

\* the rule of newline stripping, from the tree before to the tree now: a text leaf
\* that now follows a plain element and began with a line feed has lost that one line
\* feed; a leaf in a verbatim region, or without a leading line feed, is as it was
newlinesStripped(before, now) ==
    \A id \in textLeaves(before) \cap DOMAIN now :
        /\ (followsPlainElement(now, id) /\ beginsWithLF(before[id].txt))
               => now[id].txt = Tail(before[id].txt)
        /\ (verbatim(now, id) \/ ~beginsWithLF(before[id].txt))
               => now[id].txt = before[id].txt

\* C10 as stated: after normalizeDOM has run on any tree, every text leaf that follows
\* a plain element and began with a line feed has lost exactly that line feed, and
\* every text leaf in a verbatim region or without a leading line feed is untouched.
C10_NewlinesStrippedByNormalizeDOM ==
    (pc = "returned" /\ call.method = "normalizeDOM")
        => newlinesStripped(call.element, call.after)

\* C10, amended: on a parser that is not destroyed, the newline-stripping step of
\* normalizeDOM obeys the rule on the tree block extraction left, keeps every text
\* leaf, and changes nothing else of that tree; without the inline option its tree is
\* the one normalizeDOM leaves.  On a destroyed parser normalizeDOM leaves the tree as
\* it was.
C10_NewlinesStrippedOnLiveParser ==
    (pc = "returned" /\ call.method = "normalizeDOM")
        => IF call.live
           THEN /\ newlinesStripped(call.blocks, call.stripped)
                /\ DOMAIN call.stripped = DOMAIN call.blocks
                /\ \A id \in DOMAIN call.blocks :
                       /\ call.stripped[id].tag = call.blocks[id].tag
                       /\ call.stripped[id].kids = call.blocks[id].kids
                       /\ (call.stripped[id].txt # call.blocks[id].txt)
                              => (followsPlainElement(call.blocks, id)
                                      /\ beginsWithLF(call.blocks[id].txt))
                /\ (~call.inline => call.after = call.stripped)
           ELSE call.after = call.element

C10_Witness ==
    /\ pc = "returned"
    /\ call.method = "normalizeDOM"
    /\ call.live
    /\ \E id \in textLeaves(call.blocks) :
           /\ followsPlainElement(call.stripped, id)
           /\ beginsWithLF(call.blocks[id].txt)
           /\ call.stripped[id].txt = Tail(call.blocks[id].txt)
    /\ \E id \in textLeaves(call.blocks) :
           /\ verbatim(call.stripped, id)
           /\ beginsWithLF(call.blocks[id].txt)
           /\ call.stripped[id].txt = call.blocks[id].txt

(***************************************************************************)
(* Claims about inline unwrapping.                                         *)
(***************************************************************************)
whitespace(cs, i) == cs[i] = " " \/ cs[i] = LF

\* the longest run of whitespace cs begins with
whitespaceAtStart(cs) ==
    SubSeq(cs, 1, CHOOSE n \in 0 .. Len(cs) :
                      /\ \A i \in 1 .. n : whitespace(cs, i)
                      /\ n < Len(cs) => ~whitespace(cs, n + 1))

\* the longest run of whitespace cs ends with
whitespaceAtEnd(cs) ==
    SubSeq(cs, 1 + (CHOOSE n \in 0 .. Len(cs) :
                        /\ \A i \in n + 1 .. Len(cs) : whitespace(cs, i)
                        /\ n > 0 => ~whitespace(cs, n)),
           Len(cs))

beginsWithTwoLF(cs) == Len(cs) >= 2 /\ cs[1] = LF /\ cs[2] = LF

\* the place among the children of the root of T of its first child element, 0 if none
firstElementPlace(T) ==
    LET kids == T[Root].kids
        places == {k \in 1 .. Len(kids) :
                       T[kids[k]].tag # "#text" /\ \A j \in 1 .. k - 1 : T[kids[j]].tag = "#text"}
    IN  IF places = {} THEN 0 ELSE CHOOSE k \in places : TRUE

elementFollows(T, k) ==
    \E j \in k + 1 .. Len(T[Root].kids) : T[T[Root].kids[j]].tag # "#text"

\* the markup of T with the children of the k-th child of the root in its place
markupWithoutWrapper(T, k) ==
    LET kids == T[Root].kids
    IN  serialize(T, SubSeq(kids, 1, k - 1)) \o serialize(T, T[kids[k]].kids)
            \o serialize(T, SubSeq(kids, k + 1, Len(kids)))

\* an inline normalization ran on a live parser, the source not beginning with two line
\* feeds, on a tree whose first child element is a paragraph
inlineUnwrapRan ==
    /\ pc = "returned"
    /\ call.method = "normalizeDOM"
    /\ call.live
    /\ call.inline
    /\ ~beginsWithTwoLF(call.content.val)
    /\ firstElementPlace(call.stripped) > 0
    /\ call.stripped[call.stripped[Root].kids[firstElementPlace(call.stripped)]].tag = "p"

\* C11: for a source that does not begin with two line feeds, normalized with inline
\* true on a tree whose first child element is a paragraph, the markup that results is
\* the leading whitespace run of the source, then the markup of the tree with the
\* paragraph's children in the paragraph's place, then the trailing whitespace run of
\* the source when no element follows the paragraph, and nothing when one does.
C11_InlineUnwrapRestoresWhitespace ==
    inlineUnwrapRan
        => LET k == firstElementPlace(call.stripped)
           IN  innerHTML(call.after, Root)
                   = whitespaceAtStart(call.content.val)
                         \o markupWithoutWrapper(call.stripped, k)
                         \o (IF elementFollows(call.stripped, k) THEN <<>>
                             ELSE whitespaceAtEnd(call.content.val))

C11_Witness ==
    /\ inlineUnwrapRan
    /\ whitespaceAtStart(call.content.val) # <<>>
    /\ whitespaceAtEnd(call.content.val) # <<>>
    /\ whitespaceAtStart(call.content.val) # call.content.val
    /\ ~elementFollows(call.stripped, firstElementPlace(call.stripped))
    /\ markupWithoutWrapper(call.stripped, firstElementPlace(call.stripped)) # <<>>

(***************************************************************************)
(* Claims about the order of a parse.                                      *)
(***************************************************************************)
\* a parse of a string on a live parser that came through without an exception
parseCompleted ==
    /\ parseReturned
    /\ call.live
    /\ call.content.type = "string"
    /\ call.outcome.kind = "returns"
    /\ ~logged("Error in renderer")
    /\ ~logged("Error parsing markdown")
    /\ ~logged("Error normalizing DOM")

\* the places of the registered extensions that have an updateDOM hook, in order
hookPlaces == SelectSeq([i \in 1 .. Len(extensions) |-> i], LAMBDA i : extensions[i] # "none")

normalizerSteps == {"normalizeBlocks", "stripNewlines", "normalizeInline"}

\* the tree elementFromString built, after n hooks that each append an element
RECURSIVE treeAfterAppends(_, _)
treeAfterAppends(T, n) ==
    IF n = 0 THEN T
    ELSE LET U == treeAfterAppends(T, n - 1)
             id == 1 + CHOOSE m \in DOMAIN U : \A o \in DOMAIN U : o <= m
         IN  [U EXCEPT ![Root].kids = Append(@, id)] @@ (id :> node("b", <<>>, <<>>))

\* C12: in every parse of a string on a live parser that completes without an
\* exception, the renderer entry point chosen by inline is called once and first; its
\* output loses one trailing line feed unless it is exactly one line feed; the tree is
\* built next; then the updateDOM hook of every extension that has one is called once,
\* in registration order, on that one tree; normalizer steps come only after the last
\* hook; and the text returned is the inner markup of the tree after normalization.
C12_ParseOrder ==
    parseCompleted
        => LET n == Len(hookPlaces)
               html == call.outcome.html
           IN  /\ Len(call.log) >= 2 + n
               /\ call.log[1] = event(IF call.inline THEN "parseMarkdownInline"
                                      ELSE "parseMarkdown", 0)
               /\ call.rendered = IF html # <<LF>> /\ html # <<>> /\ html[Len(html)] = LF
                                  THEN SubSeq(html, 1, Len(html) - 1)
                                  ELSE html
               /\ call.log[2] = event("elementFromString", 0)
               /\ \A j \in 1 .. n : call.log[2 + j] = event("updateDOM", hookPlaces[j])
               /\ \A j \in 1 .. Len(call.log) :
                      (call.log[j].ev \in normalizerSteps) <=> (j > 2 + n)
               /\ call.element
                      = treeAfterAppends(elementFromString(call.rendered),
                                         Cardinality({i \in 1 .. Len(extensions) :
                                                          extensions[i] = "append"}))
               /\ call.result = string(innerHTML(call.after, Root))

C12_Witness ==
    /\ parseCompleted
    /\ Len(hookPlaces) = 2
    /\ extensions[1] = "append"
    /\ call.outcome.html # call.rendered
    /\ call.rendered # <<>>
    /\ \E j \in 1 .. Len(call.log) : call.log[j].ev = "stripNewlines"
    /\ call.element # elementFromString(call.rendered)

(***************************************************************************)
(* Claims about the flanking rule and the spans trimInline leaves.         *)
(***************************************************************************)
blank(c) == c = 32 \/ (c >= 9 /\ c <= 13)

punctuation(c) == c \in (33 .. 47) \cup (58 .. 64) \cup (91 .. 96) \cup (123 .. 126)

\* the character before and after the 0-based position pos of s, a blank outside s
before(s, pos) == IF pos = 0 THEN 32 ELSE s[pos]

after(s, pos) == IF pos = Len(s) - 1 THEN 32 ELSE s[pos + 2]

leftFlanking(s, pos) ==
    ~blank(after(s, pos))
        /\ (~punctuation(after(s, pos)) \/ blank(before(s, pos)) \/ punctuation(before(s, pos)))

rightFlanking(s, pos) ==
    ~blank(before(s, pos))
        /\ (~punctuation(before(s, pos)) \/ blank(after(s, pos)) \/ punctuation(after(s, pos)))

\* C13: for every non-empty text and every position in it, with a blank assumed before
\* the first and after the last character, canDelimiterBeUsed answers true for an
\* opening delimiter exactly when the position is left-flanking and for a closing one
\* exactly when it is right-flanking, and it agrees with the earlier, regex-based copy.
C13_FlankingRuleEverywhere ==
    (op = "canDelimiterBeUsed" /\ text # <<>> /\ from >= 0 /\ from < Len(text))
        => /\ flag = (IF isOpening THEN leftFlanking(text, from) ELSE rightFlanking(text, from))
           /\ flag = canDelimiterBeUsedOrig(text, from, isOpening)

\* trimInline ran its passes on a text holding the pair and left the span uncollapsed
spanKept == op = "trimInline" /\ st.ran /\ st.pair /\ ~collapses(st, delim)

\* C14: when trimInline returns without collapsing the span, the returned text holds
\* the opening delimiter at the final from and the closing delimiter at the final to,
\* the first a legal opening boundary of the returned text and the second a legal
\* closing boundary of it.
C14_BoundariesLegalOnReturn ==
    spanKept
        => /\ tokenAt(out, delim, st.from)
           /\ canDelimiterBeUsed(out, st.from, TRUE)
           /\ tokenAt(out, delim, st.to)
           /\ canDelimiterBeUsed(out, st.to, FALSE)

\* C15: trimInline only moves or deletes the two delimiter tokens of the span: the
\* text returned is never longer than the input; on rejected bounds it is the input;
\* and when the span of a pair is not collapsed it is as long as the input, holds the
\* two tokens at the final positions, and without them is the input without its two
\* tokens, character for character.
C15_OnlyDelimitersMove ==
    op = "trimInline"
        => /\ Len(out) <= Len(text)
           /\ rejected(text, from, to) => out = text
           /\ spanKept
                  => /\ Len(out) = Len(text)
                     /\ tokenAt(out, delim, st.from)
                     /\ tokenAt(out, delim, st.to)
                     /\ st.from + Len(delim) <= st.to
                     /\ withoutPair(out, delim, st.from, st.to)
                            = withoutPair(text, delim, from, to)

(***************************************************************************)
(* Destruction of the parser.                                              *)
(***************************************************************************)
\* a call of parse begins and ends in this step
parseCalled == pc = "idle" /\ pc' = "returned" /\ call'.method = "parse"

====
